---- MODULE Spec2Model ----
(***************************************************************************)
(* Availability computation of the Meetings service                        *)
(* (src/src/book/calculate_availability.py): the scan window derived from  *)
(* the wall clock, the working-hours and busy-interval predicates, and the *)
(* slot enumeration of get_availabilities, one loop iteration per step.    *)
(*                                                                         *)
(* A datetime is [ord, sec, us]: the proleptic Gregorian ordinal of its    *)
(* date (datetime.toordinal()), the second of the day and the microsecond. *)
(* A time of day is [sec, us].  ISO-8601 strings are tuples of their       *)
(* numeric fields: "09:00:00" is <<9, 0, 0>>, "2024-01-15T09:00:00" is     *)
(* <<2024, 1, 15, 9, 0, 0>>, "2024-01-15" is <<2024, 1, 15>>.              *)
(***************************************************************************)
EXTENDS Integers, Sequences, FiniteSets, TLC

VARIABLES
    pc,                 \* position of the get_availabilities invocation
    table,              \* the record store: key -> item
    event_type,         \* argument of get_availabilities
    availability_data,  \* local: the template returned by get_availability
    current_date,       \* local of get_start_and_end_times: datetime.now()
    start_time,         \* local: horizon start
    end_time,           \* local: horizon end
    status_code,        \* status of the provider's response
    events,             \* local: response.json()["events"]
    time_slot_start,    \* local: cursor, start of the candidate slot
    time_slot_end,      \* local: end of the candidate slot
    first_loop,         \* local: first_loop flag
    freeTimes,          \* local: defaultdict(list), date string -> slot records
    result,             \* what the invocation returned or raised
    call,               \* a direct call of one of the two predicates: its arguments
    ret,                \* the value that call returned
    request,            \* arguments of get_availabilities_for_url: username, url
    inv,                \* two invocations side by side: the locals of each
    external_calls      \* the calls get_availabilities has made, in order

vars == <<pc, table, event_type, availability_data, current_date, start_time,
          end_time, status_code, events, time_slot_start, time_slot_end,
          first_loop, freeTimes, result, call, ret, request, inv, external_calls>>

None == "None"

----------------------------------------------------------------------------
(* datetime arithmetic, as CPython's datetime module computes it *)

is_leap(y) == y % 4 = 0 /\ (y % 100 # 0 \/ y % 400 = 0)

days_in_month(y, m) ==
    IF m = 2 THEN (IF is_leap(y) THEN 29 ELSE 28)
    ELSE IF m \in {4, 6, 9, 11} THEN 30 ELSE 31

RECURSIVE days_before_month(_, _)
days_before_month(y, m) ==
    IF m = 1 THEN 0 ELSE days_before_month(y, m - 1) + days_in_month(y, m - 1)

days_before_year(y) ==
    LET p == y - 1 IN p * 365 + (p \div 4) - (p \div 100) + (p \div 400)

ymd2ord(y, m, d) == days_before_year(y) + days_before_month(y, m) + d

\* _ord2ymd: the year, month and day of an ordinal
ord2ymd(ord) ==
    LET n0   == ord - 1
        n400 == n0 \div 146097
        r400 == n0 % 146097
        n100 == r400 \div 36524
        r100 == r400 % 36524
        n4   == r100 \div 1461
        r4   == r100 % 1461
        n1   == r4 \div 365
        r1   == r4 % 365
        year == n400 * 400 + 1 + n100 * 100 + n4 * 4 + n1
        est  == (r1 + 50) \div 32
        m0   == IF days_before_month(year, est) > r1 THEN est - 1 ELSE est
    IN  IF n1 = 4 \/ n100 = 4
        THEN <<year - 1, 12, 31>>
        ELSE <<year, m0, r1 - days_before_month(year, m0) + 1>>

\* datetime.weekday(): Monday is 0, Sunday is 6
weekday(dt) == (dt.ord + 6) % 7

\* dt + timedelta(days = n)
plus_days(dt, n) == [dt EXCEPT !.ord = @ + n]

\* dt + timedelta(seconds = n), n >= 0
plus_seconds(dt, n) ==
    [dt EXCEPT !.ord = @ + ((dt.sec + n) \div 86400),
               !.sec = (dt.sec + n) % 86400]

\* dt.replace(hour, minute, second, microsecond)
replace_time(dt, h, m, s, us) == [dt EXCEPT !.sec = h * 3600 + m * 60 + s, !.us = us]

\* dt.time()
time_of(dt) == [sec |-> dt.sec, us |-> dt.us]

\* comparisons of naive datetimes and of times of day
dt_lt(a, b) ==
    \/ a.ord < b.ord
    \/ a.ord = b.ord /\ a.sec < b.sec
    \/ a.ord = b.ord /\ a.sec = b.sec /\ a.us < b.us

dt_le(a, b) == a = b \/ dt_lt(a, b)

time_lt(a, b) == a.sec < b.sec \/ (a.sec = b.sec /\ a.us < b.us)

time_le(a, b) == a = b \/ time_lt(a, b)

\* time.fromisoformat("HH:MM:SS")
time_fromisoformat(s) == [sec |-> s[1] * 3600 + s[2] * 60 + s[3], us |-> 0]

\* datetime.fromisoformat("YYYY-MM-DDTHH:MM:SS[.ffffff]")
datetime_fromisoformat(s) ==
    [ord |-> ymd2ord(s[1], s[2], s[3]),
     sec |-> s[4] * 3600 + s[5] * 60 + s[6],
     us  |-> IF Len(s) > 6 THEN s[7] ELSE 0]

\* dt.strftime("%Y-%m-%d")
strftime_date(dt) == ord2ymd(dt.ord)

\* dt.isoformat(): the microsecond field is printed only when it is not 0
isoformat(dt) ==
    LET d   == ord2ymd(dt.ord)
        hms == <<dt.sec \div 3600, (dt.sec % 3600) \div 60, dt.sec % 60>>
    IN  IF dt.us = 0 THEN d \o hms ELSE d \o hms \o <<dt.us>>

----------------------------------------------------------------------------
(* the functions of calculate_availability.py *)

duration_seconds == 15 * 60

\* variant: the days are counted back to Monday
days_since_monday(now) == weekday(now)

\* get_start_and_end_times, for the clock reading now
days_since_sunday(now) == weekday(now) + 1

\* variant: the Saturday offset counted from the wrong weekday
days_to_next_saturday_off(now) == 6 - weekday(now)

days_to_next_saturday(now) == 5 - weekday(now)

horizon_start(now) ==
    replace_time(plus_days(now, 0 - days_since_sunday(now)), 0, 0, 0, 0)

horizon_end(now) ==
    replace_time(plus_days(plus_days(now, 6 * 7), days_to_next_saturday(now)),
                 23, 59, 59, 999999)

\* variant: only the slot's start is tested against the range
in_time_range_start_only(time_range, slot_start, slot_end) ==
    LET time_range_start == time_fromisoformat(time_range.start)
        time_range_end   == time_fromisoformat(time_range.end)
    IN  /\ time_le(time_range_start, time_of(slot_start))
        /\ time_lt(time_of(slot_start), time_range_end)

\* variant: the slot's end must come before the range's end
in_time_range_strict_end(time_range, slot_start, slot_end) ==
    LET time_range_start == time_fromisoformat(time_range.start)
        time_range_end   == time_fromisoformat(time_range.end)
    IN  /\ time_le(time_range_start, time_of(slot_start))
        /\ time_lt(time_of(slot_start), time_range_end)
        /\ time_le(time_range_start, time_of(slot_end))
        /\ time_lt(time_of(slot_end), time_range_end)

\* the test of one time_range of within_working_hours
in_time_range(time_range, slot_start, slot_end) ==
    LET time_range_start == time_fromisoformat(time_range.start)
        time_range_end   == time_fromisoformat(time_range.end)
    IN  /\ time_le(time_range_start, time_of(slot_start))
        /\ time_lt(time_of(slot_start), time_range_end)
        /\ time_le(time_range_start, time_of(slot_end))
        /\ time_le(time_of(slot_end), time_range_end)

\* the for loop of within_working_hours from the i-th range on
RECURSIVE within_working_hours_from(_, _, _, _)
within_working_hours_from(working_hours, i, slot_start, slot_end) ==
    IF i > Len(working_hours) THEN FALSE
    ELSE IF in_time_range(working_hours[i], slot_start, slot_end) THEN TRUE
    ELSE within_working_hours_from(working_hours, i + 1, slot_start, slot_end)

\* altered: a day without ranges is open all day
within_working_hours_open_when_empty(working_hours, slot_start, slot_end) ==
    \/ working_hours = <<>>
    \/ within_working_hours_from(working_hours, 1, slot_start, slot_end)

within_working_hours(working_hours, slot_start, slot_end) ==
    within_working_hours_from(working_hours, 1, slot_start, slot_end)

\* variant: the clause for a slot that strictly contains the event is missing
event_overlaps_two_clauses(event, slot_start, slot_end) ==
    LET event_start == datetime_fromisoformat(event.start)
        event_end   == datetime_fromisoformat(event.end)
    IN  \/ (dt_le(event_start, slot_start) /\ dt_lt(slot_start, event_end))
        \/ (dt_lt(event_start, slot_end) /\ dt_le(slot_end, event_end))

\* variant: a slot that ends exactly at the event's end escapes the second clause
event_overlaps_strict_end(event, slot_start, slot_end) ==
    LET event_start == datetime_fromisoformat(event.start)
        event_end   == datetime_fromisoformat(event.end)
    IN  \/ (dt_le(event_start, slot_start) /\ dt_lt(slot_start, event_end))
        \/ (dt_lt(event_start, slot_end) /\ dt_lt(slot_end, event_end))
        \/ (dt_lt(slot_start, event_start) /\ dt_lt(event_end, slot_end))

\* variant: closed intervals, a touching boundary counts as overlap
event_overlaps_closed(event, slot_start, slot_end) ==
    LET event_start == datetime_fromisoformat(event.start)
        event_end   == datetime_fromisoformat(event.end)
    IN  \/ (dt_le(event_start, slot_start) /\ dt_le(slot_start, event_end))
        \/ (dt_le(event_start, slot_end) /\ dt_le(slot_end, event_end))
        \/ (dt_lt(slot_start, event_start) /\ dt_lt(event_end, slot_end))

\* the three-clause test of one event of overlapping_with_event
event_overlaps(event, slot_start, slot_end) ==
    LET event_start == datetime_fromisoformat(event.start)
        event_end   == datetime_fromisoformat(event.end)
    IN  \/ (dt_le(event_start, slot_start) /\ dt_lt(slot_start, event_end))
        \/ (dt_lt(event_start, slot_end) /\ dt_le(slot_end, event_end))
        \/ (dt_lt(slot_start, event_start) /\ dt_lt(event_end, slot_end))

\* the for loop of overlapping_with_event from the i-th event on
RECURSIVE overlapping_with_event_from(_, _, _, _)
overlapping_with_event_from(evs, i, slot_start, slot_end) ==
    IF i > Len(evs) THEN FALSE
    ELSE IF event_overlaps(evs[i], slot_start, slot_end) THEN TRUE
    ELSE overlapping_with_event_from(evs, i + 1, slot_start, slot_end)

overlapping_with_event(evs, slot_start, slot_end) ==
    overlapping_with_event_from(evs, 1, slot_start, slot_end)

\* variant: the slot is moved on in the first pass too
advance_always(first, t) == plus_seconds(t, duration_seconds)

\* variant: the slot is never moved on
advance_stalled(first, t) == t

\* the head of the loop body: every pass but the first moves the slot on
advance(first, t) == IF first THEN t ELSE plus_seconds(t, duration_seconds)

\* variant: the bucket is picked with Sunday as index 0
working_hours_of_sunday_first(data, slot_start) ==
    data[((weekday(slot_start) + 1) % 7) + 1]

\* availability_data[time_slot_start.weekday()]: Python lists count from 0
working_hours_of(data, slot_start) == data[weekday(slot_start) + 1]

\* freeTimes[date_str].append(transformed_slot) on a defaultdict(list)
\* variant: the slot is filed under the date on which it ends
append_slot_by_end_date(free, slot_start) ==
    LET date_str         == strftime_date(plus_seconds(slot_start, duration_seconds))
        transformed_slot == [time |-> isoformat(slot_start), users |-> <<>>]
    IN  IF date_str \in DOMAIN free
        THEN [free EXCEPT ![date_str] = Append(@, transformed_slot)]
        ELSE free @@ (date_str :> <<transformed_slot>>)

append_slot(free, slot_start) ==
    LET date_str         == strftime_date(slot_start)
        transformed_slot == [time |-> isoformat(slot_start), users |-> <<>>]
    IN  IF date_str \in DOMAIN free
        THEN [free EXCEPT ![date_str] = Append(@, transformed_slot)]
        ELSE free @@ (date_str :> <<transformed_slot>>)

----------------------------------------------------------------------------
(* the inputs: clock readings, stored templates, provider answers *)

\* number of consecutive dates the clock reading is drawn from
NowDays == 7

\* longest list of busy intervals the provider answers with
MaxEvents == 2

FirstNowDay == ymd2ord(2024, 1, 15)

NowTimes ==
    { [sec |-> 0, us |-> 0],
      [sec |-> 13 * 3600 + 37 * 60 + 42, us |-> 123456],
      [sec |-> 86399, us |-> 999999] }

Nows ==
    { [ord |-> FirstNowDay + i, sec |-> t.sec, us |-> t.us] :
        i \in 0..(NowDays - 1), t \in NowTimes }

Range(a, b) == [start |-> a, end |-> b]

\* index 1 is weekday() = 0 (Monday), index 7 is weekday() = 6 (Sunday)
TemplateMixed ==
    << <<Range(<<8, 30, 0>>, <<10, 10, 0>>)>>,
       <<Range(<<9, 0, 0>>, <<9, 20, 0>>), Range(<<9, 20, 0>>, <<9, 45, 0>>)>>,
       <<Range(<<9, 0, 0>>, <<9, 40, 0>>), Range(<<9, 30, 0>>, <<10, 10, 0>>)>>,
       <<Range(<<9, 5, 0>>, <<9, 50, 0>>)>>,
       <<>>,
       <<Range(<<23, 15, 0>>, <<23, 59, 59>>)>>,
       <<Range(<<0, 0, 0>>, <<0, 30, 0>>)>> >>

TemplateSaturday ==
    << <<>>, <<>>, <<>>, <<>>, <<>>,
       <<Range(<<0, 0, 0>>, <<23, 59, 59>>)>>,
       <<>> >>

\* Monday 09:00-17:00, and one quarter of an hour on Thursday
TemplateOfficeMonday ==
    << <<Range(<<9, 0, 0>>, <<17, 0, 0>>)>>,
       <<>>, <<>>,
       <<Range(<<13, 0, 0>>, <<13, 15, 0>>)>>,
       <<>>, <<>>, <<>> >>

Templates == {TemplateMixed, TemplateSaturday, TemplateOfficeMonday}

Event(a, b) == [start |-> a, end |-> b]

EventPool ==
    << Event(<<2024, 1, 22, 9, 0, 0>>, <<2024, 1, 22, 9, 30, 0>>),
       Event(<<2024, 1, 22, 9, 45, 0>>, <<2024, 1, 22, 10, 0, 0>>),
       Event(<<2024, 1, 24, 9, 20, 0>>, <<2024, 1, 24, 9, 40, 0>>),
       Event(<<2024, 1, 25, 9, 35, 0>>, <<2024, 1, 25, 9, 40, 0, 500000>>),
       Event(<<2024, 3, 2, 23, 0, 0>>, <<2024, 3, 3, 0, 30, 0>>),
       Event(<<2024, 1, 14, 0, 0, 0>>, <<2024, 1, 14, 0, 15, 0>>) >>

\* the runs of at most MaxEvents consecutive events of the pool
BusyLists ==
    { SubSeq(EventPool, w[1], w[1] + w[2] - 1) :
        w \in { v \in (1..Len(EventPool)) \X (0..MaxEvents) :
                   v[1] + v[2] - 1 <= Len(EventPool) } }

OwnerId == "owner"

AvailabilityId == "a1"

AvailabilityKey(id, availability_id) == <<id, <<"AVAILABILITY", availability_id>>>>

NoRows == [k \in {} |-> None]

EventKey(id, event_type_id) == <<id, <<"EVENT", event_type_id>>>>

\* event_types.create stores the owner id as the username of the row
Username == OwnerId

Url == "intro"

ReservedUrl == "RESERVED_FOR_INTERNAL_USE_ONLY"

\* the row of the owner's event type, as event_types.create stores it
EventRow ==
    EventKey(OwnerId, "e1") :>
        [id |-> OwnerId, username |-> Username, url |-> Url, name |-> "Intro call",
         description |-> "", duration |-> 30, availability_id |-> AvailabilityId,
         hidden |-> FALSE]

\* the store holds no row at all, or the event type's row and with it no
\* availability row, an availability row without data, or one with a template
Tables ==
    {NoRows, EventRow}
    \cup {EventRow @@ (AvailabilityKey(OwnerId, AvailabilityId) :> [name |-> "empty"])}
    \cup { EventRow @@
             (AvailabilityKey(OwnerId, AvailabilityId) :> [name |-> "hours", data |-> t]) :
             t \in Templates }

Requests ==
    { [username |-> Username, url |-> Url],
      [username |-> Username, url |-> ReservedUrl],
      [username |-> "nobody", url |-> Url] }

Responses ==
    { [status_code |-> 200, is_json |-> TRUE, body |-> [events |-> l]] : l \in BusyLists }
    \cup { [status_code |-> 500, is_json |-> TRUE,
            body |-> [events |-> SubSeq(EventPool, 1, 1)]],
           [status_code |-> 200, is_json |-> TRUE, body |-> [message |-> "no events"]],
           [status_code |-> 502, is_json |-> FALSE, body |-> [text |-> "Bad Gateway"]] }

EmptyDict == [k \in {} |-> <<>>]

----------------------------------------------------------------------------
(* get_availabilities_for_url and get_availabilities, step by step *)

Init ==
    /\ pc = "get_event_type_for_url"
    /\ table \in Tables
    /\ request \in Requests
    /\ inv = None
    /\ external_calls = <<>>
    /\ event_type = None
    /\ availability_data = None
    /\ current_date = None
    /\ start_time = None
    /\ end_time = None
    /\ status_code = None
    /\ events = None
    /\ time_slot_start = None
    /\ time_slot_end = None
    /\ first_loop = None
    /\ freeTimes = None
    /\ result = None
    /\ call = None
    /\ ret = None

\* dt.strftime("%Y-%m-%dT%H:%M:%SZ"): whole seconds, the microsecond is not
\* printed
strftime_seconds(dt) ==
    ord2ymd(dt.ord) \o <<dt.sec \div 3600, (dt.sec % 3600) \div 60, dt.sec % 60>>

\* table.get_item(Key={"id": ..., "sortKey": "AVAILABILITY:..."})
get_item(key) == [op |-> "get_item", Key |-> key]

\* requests.get(".../events?start_time=...&end_time=...&id=...")
events_query(start, end, id) ==
    [op |-> "GET", start_time |-> strftime_seconds(start),
     end_time |-> strftime_seconds(end), id |-> id]

\* table.query on UsernameUrlIndex
items_for(t, username, url) ==
    { k \in DOMAIN t : /\ "username" \in DOMAIN t[k]
                       /\ "url" \in DOMAIN t[k]
                       /\ t[k].username = username
                       /\ t[k].url = url }

\* get_event_type_for_url(username, url, public_use=False): the raw row, or
\* NotFoundError for the reserved URL and for no row
get_event_type_for_url ==
    /\ pc = "get_event_type_for_url"
    /\ LET items == items_for(table, request.username, request.url)
       IN  IF request.url = ReservedUrl
           THEN /\ pc' = "raised"
                /\ result' = [raised |-> "NotFoundError", message |-> "Reserved URL used."]
                /\ event_type' = event_type
           ELSE IF items = {}
           THEN /\ pc' = "raised"
                /\ result' = [raised |-> "NotFoundError",
                              message |-> "No event type found for the given username and URL."]
                /\ event_type' = event_type
           ELSE /\ pc' = "get_availability"
                /\ result' = result
                /\ event_type' = table[CHOOSE k \in items : TRUE]
    /\ UNCHANGED <<table, availability_data, current_date, start_time, end_time,
                   status_code, events, time_slot_start, time_slot_end, first_loop,
                   freeTimes, call, ret, request, inv,
                   external_calls>>

\* get_availability: the row's data, or the exception it raises and
\* get_availabilities re-raises
\* variant: a missing template is taken as a week without working hours, and
\* the request goes on to the provider
get_availability_unchecked ==
    /\ pc = "get_availability"
    /\ pc' = "get_start_and_end_times"
    /\ LET key == AvailabilityKey(event_type.id, event_type.availability_id)
       IN  /\ availability_data' =
                 IF key \in DOMAIN table /\ "data" \in DOMAIN table[key]
                 THEN table[key].data
                 ELSE [i \in 1..7 |-> <<>>]
           /\ external_calls' = Append(external_calls, get_item(key))
    /\ result' = result
    /\ UNCHANGED <<table, event_type, current_date, start_time, end_time, status_code,
                   events, time_slot_start, time_slot_end, first_loop, freeTimes,
                   call, ret, request, inv>>

get_availability ==
    /\ pc = "get_availability"
    /\ LET key == AvailabilityKey(event_type.id, event_type.availability_id)
       IN  /\ IF key \in DOMAIN table /\ "data" \in DOMAIN table[key]
              THEN /\ pc' = "get_start_and_end_times"
                   /\ availability_data' = table[key].data
                   /\ result' = result
              ELSE /\ pc' = "raised"
                   /\ availability_data' = availability_data
                   /\ result' = [raised |-> "Exception",
                                 message |-> "No availability found for the given IDs."]
           /\ external_calls' = Append(external_calls, get_item(key))
    /\ UNCHANGED <<table, event_type, current_date, start_time, end_time, status_code,
                   events, time_slot_start, time_slot_end, first_loop, freeTimes,
                   call, ret, request, inv>>

\* get_start_and_end_times: reads the clock and derives the horizon
get_start_and_end_times ==
    /\ pc = "get_start_and_end_times"
    /\ pc' = "requests_get"
    /\ \E now \in Nows :
          /\ current_date' = now
          /\ start_time' = horizon_start(now)
          /\ end_time' = horizon_end(now)
    /\ UNCHANGED <<table, event_type, availability_data, status_code, events,
                   time_slot_start, time_slot_end, first_loop, freeTimes, result,
                   call, ret, request, inv,
                   external_calls>>

\* freeTimes = defaultdict(list), the provider call, response.json()["events"]
\* and the first candidate slot; get_start_and_end_times has returned and its
\* local current_date is gone
requests_get ==
    /\ pc = "requests_get"
    /\ \E response \in Responses :
          IF response.is_json /\ "events" \in DOMAIN response.body
          THEN /\ pc' = "loop"
               /\ status_code' = response.status_code
               /\ events' = response.body.events
               /\ freeTimes' = EmptyDict
               /\ time_slot_start' = start_time
               /\ time_slot_end' = plus_seconds(start_time, duration_seconds)
               /\ first_loop' = TRUE
               /\ result' = result
          ELSE /\ pc' = "raised"
               /\ result' = [raised |-> IF response.is_json THEN "KeyError"
                                        ELSE "JSONDecodeError",
                             message |-> "events"]
               /\ status_code' = response.status_code
               /\ events' = events
               /\ freeTimes' = EmptyDict
               /\ UNCHANGED <<time_slot_start, time_slot_end, first_loop>>
    /\ current_date' = None
    /\ external_calls' =
          Append(external_calls, events_query(start_time, end_time, event_type.id))
    /\ UNCHANGED <<table, event_type, availability_data, start_time, end_time,
                   call, ret, request, inv>>

\* requests.get raises: the provider cannot be reached
requests_get_fails ==
    /\ pc = "requests_get"
    /\ pc' = "raised"
    /\ result' = [raised |-> "ConnectionError", message |-> "provider unreachable"]
    /\ current_date' = None
    /\ freeTimes' = EmptyDict
    /\ external_calls' =
          Append(external_calls, events_query(start_time, end_time, event_type.id))
    /\ UNCHANGED <<table, event_type, availability_data, start_time, end_time,
                   status_code, events, time_slot_start, time_slot_end, first_loop,
                   call, ret, request, inv>>

\* one pass through the body of the while loop
loop_iteration ==
    /\ pc = "loop"
    /\ dt_le(time_slot_end, end_time)
    /\ LET s == advance(first_loop, time_slot_start)
           e == advance(first_loop, time_slot_end)
           working_hours == working_hours_of(availability_data, s)
       IN  /\ time_slot_start' = s
           /\ time_slot_end' = e
           /\ first_loop' = FALSE
           /\ freeTimes' =
                 IF ~within_working_hours(working_hours, s, e) THEN freeTimes
                 ELSE IF overlapping_with_event(events, s, e) THEN freeTimes
                 ELSE append_slot(freeTimes, s)
    /\ UNCHANGED <<pc, table, event_type, availability_data, current_date, start_time,
                   end_time, status_code, events, result, call, ret, request, inv,
                   external_calls>>

\* the while condition fails: return {"statusCode": 200, "body": ...}
loop_exit ==
    /\ pc = "loop"
    /\ ~dt_le(time_slot_end, end_time)
    /\ pc' = "done"
    /\ result' = [statusCode |-> 200, body |-> freeTimes]
    /\ UNCHANGED <<table, event_type, availability_data, current_date, start_time,
                   end_time, status_code, events, time_slot_start, time_slot_end,
                   first_loop, freeTimes, call, ret, request, inv,
                   external_calls>>

\* the except clauses of get_availabilities_for_url: NotFoundError is raised
\* again, anything else becomes InternalServerError
surfaced(error) ==
    IF error.raised = "NotFoundError" THEN error
    ELSE [raised |-> "InternalServerError", message |-> "Internal service error"]

get_availabilities_for_url_except ==
    /\ pc = "raised"
    /\ pc' = "failed"
    /\ result' = surfaced(result)
    /\ UNCHANGED <<table, event_type, availability_data, current_date, start_time,
                   end_time, status_code, events, time_slot_start, time_slot_end,
                   first_loop, freeTimes, call, ret, request, inv,
                   external_calls>>

Next ==
    \/ get_event_type_for_url
    \/ get_availability
    \/ get_start_and_end_times
    \/ requests_get
    \/ requests_get_fails
    \/ loop_iteration
    \/ loop_exit
    \/ get_availabilities_for_url_except

Spec == Init /\ [][Next]_vars

----------------------------------------------------------------------------
(* a template made by availabilities.create, then the walk over it *)

\* time(hour, minute, second)
time(hour, minute, second) == [sec |-> hour * 3600 + minute * 60 + second, us |-> 0]

\* t.isoformat(): "HH:MM:SS", the microsecond field printed only when not 0
time_isoformat(t) ==
    LET hms == <<t.sec \div 3600, (t.sec % 3600) \div 60, t.sec % 60>>
    IN  IF t.us = 0 THEN hms ELSE hms \o <<t.us>>

\* for day in range(7): the empty list for day 0 and day 6, else 09:00-17:00
default_availability ==
    LET start        == time_isoformat(time(9, 0, 0))
        end          == time_isoformat(time(17, 0, 0))
        weekday_slot == <<[start |-> start, end |-> end]>>
        weekend_slot == <<>>
    IN  [i \in 1..7 |-> IF i - 1 = 0 \/ i - 1 = 6 THEN weekend_slot ELSE weekday_slot]

\* the values uuid.uuid4() can give: the one the event type names, or another
Uuids == {AvailabilityId, "a2"}

InitDefault ==
    /\ pc = "create"
    /\ table = EventRow
    /\ request \in Requests
    /\ inv = None
    /\ external_calls = <<>>
    /\ event_type = None
    /\ availability_data = None
    /\ current_date = None
    /\ start_time = None
    /\ end_time = None
    /\ status_code = None
    /\ events = None
    /\ time_slot_start = None
    /\ time_slot_end = None
    /\ first_loop = None
    /\ freeTimes = None
    /\ result = None
    /\ call = None
    /\ ret = None

\* availabilities.create(id, name): put_item of a row with the default data
create ==
    /\ pc = "create"
    /\ \E uuid \in Uuids :
          table' = table @@
              (AvailabilityKey(OwnerId, uuid) :>
                  [name |-> "Working hours", data |-> default_availability,
                   timezone |-> "America/New_York"])
    /\ pc' = "get_event_type_for_url"
    /\ UNCHANGED <<event_type, availability_data, current_date, start_time, end_time,
                   status_code, events, time_slot_start, time_slot_end, first_loop,
                   freeTimes, result, call, ret, request, inv,
                   external_calls>>

NextDefault ==
    \/ create
    \/ Next

SpecDefault == InitDefault /\ [][NextDefault]_vars

----------------------------------------------------------------------------
(* direct calls of within_working_hours and overlapping_with_event *)

\* longest list of ranges handed to within_working_hours
MaxRanges == 2

CallDay == ymd2ord(2024, 1, 22)

RangeTimes == {<<0, 0, 0>>, <<9, 20, 0>>, <<23, 59, 59>>}

CallRanges == { Range(a, b) : a \in RangeTimes, b \in RangeTimes }

EventTimes ==
    {<<2024, 1, 22, 9, 10, 0>>, <<2024, 1, 22, 9, 15, 0>>, <<2024, 1, 22, 9, 20, 0>>}

CallEvents == { Event(a, b) : a \in EventTimes, b \in EventTimes }

SeqsUpTo(S, n) == UNION { [1..k -> S] : k \in 0..n }

\* slots of 0, 5 and 15 minutes, on and off the quarter-hour grid, one of
\* them ending at the next midnight
CallSlots ==
    { [start |-> [ord |-> CallDay, sec |-> ss, us |-> 0],
       end   |-> plus_seconds([ord |-> CallDay, sec |-> ss, us |-> 0], d)] :
        ss \in {0, 9 * 3600 + 5 * 60, 9 * 3600 + 15 * 60, 9 * 3600 + 20 * 60,
                23 * 3600 + 45 * 60},
        d \in {0, 5 * 60, 15 * 60} }

Calls ==
    { [fn |-> "within_working_hours", working_hours |-> w,
       time_slot_start |-> t.start, time_slot_end |-> t.end] :
        w \in SeqsUpTo(CallRanges, MaxRanges), t \in CallSlots }
    \cup
    { [fn |-> "overlapping_with_event", events |-> l,
       time_slot_start |-> t.start, time_slot_end |-> t.end] :
        l \in SeqsUpTo(CallEvents, MaxEvents), t \in CallSlots }

InitCalls ==
    /\ pc = "call"
    /\ call \in Calls
    /\ ret = None
    /\ request = None
    /\ inv = None
    /\ external_calls = <<>>
    /\ table = NoRows
    /\ event_type = None
    /\ availability_data = None
    /\ current_date = None
    /\ start_time = None
    /\ end_time = None
    /\ status_code = None
    /\ events = None
    /\ time_slot_start = None
    /\ time_slot_end = None
    /\ first_loop = None
    /\ freeTimes = None
    /\ result = None

call_within_working_hours ==
    /\ pc = "call"
    /\ call.fn = "within_working_hours"
    /\ ret' = within_working_hours(call.working_hours, call.time_slot_start,
                                   call.time_slot_end)
    /\ pc' = "returned"
    /\ UNCHANGED <<table, event_type, availability_data, current_date, start_time,
                   end_time, status_code, events, time_slot_start, time_slot_end,
                   first_loop, freeTimes, result, call, request, inv,
                   external_calls>>

call_overlapping_with_event ==
    /\ pc = "call"
    /\ call.fn = "overlapping_with_event"
    /\ ret' = overlapping_with_event(call.events, call.time_slot_start,
                                     call.time_slot_end)
    /\ pc' = "returned"
    /\ UNCHANGED <<table, event_type, availability_data, current_date, start_time,
                   end_time, status_code, events, time_slot_start, time_slot_end,
                   first_loop, freeTimes, result, call, request, inv,
                   external_calls>>

NextCalls ==
    \/ call_within_working_hours
    \/ call_overlapping_with_event

SpecCalls == InitCalls /\ [][NextCalls]_vars

----------------------------------------------------------------------------
(* two invocations of get_availabilities side by side, over one store *)

\* one invocation makes BlocksPerStep blocks of PassesPerStep passes of the
\* while loop before the other gets a turn
PassesPerStep == 24

BlocksPerStep == 28

Invocations == {1, 2}

OtherId == "other"

\* the rows of two owners
PairTable ==
    (AvailabilityKey(OwnerId, AvailabilityId) :> [name |-> "hours", data |-> TemplateMixed])
    @@ (AvailabilityKey(OtherId, AvailabilityId) :>
           [name |-> "office", data |-> TemplateOfficeMonday])

\* the clock readings of the invocations: in one week and in the next
PairNows ==
    { [ord |-> FirstNowDay, sec |-> 10 * 3600, us |-> 0],
      [ord |-> FirstNowDay + 9, sec |-> 13 * 3600 + 37 * 60 + 42, us |-> 123456] }

\* what the provider answers for the calendar of an owner
calendar(id) == IF id = OwnerId THEN SubSeq(EventPool, 1, 2) ELSE <<>>

\* the locals of get_availabilities at its entry
entry(event) ==
    [pc |-> "get_availability", event_type |-> event, availability_data |-> None,
     start_time |-> None, end_time |-> None, events |-> None,
     time_slot_start |-> None, time_slot_end |-> None, first_loop |-> None,
     freeTimes |-> None, result |-> None]

InitPair ==
    /\ pc = "pair"
    /\ table = PairTable
    /\ \E id \in {OwnerId, OtherId} :
          inv = (1 :> entry([id |-> OwnerId, availability_id |-> AvailabilityId]))
                @@ (2 :> entry([id |-> id, availability_id |-> AvailabilityId]))
    /\ request = None
    /\ external_calls = <<>>
    /\ event_type = None
    /\ availability_data = None
    /\ current_date = None
    /\ start_time = None
    /\ end_time = None
    /\ status_code = None
    /\ events = None
    /\ time_slot_start = None
    /\ time_slot_end = None
    /\ first_loop = None
    /\ freeTimes = None
    /\ result = None
    /\ call = None
    /\ ret = None

\* variant: freeTimes is one dict of the module, which every invocation
\* reads and writes
with_shared_freeTimes(i, p, l) ==
    [q \in DOMAIN i |-> IF q = p THEN l ELSE [i[q] EXCEPT !.freeTimes = l.freeTimes]]

\* an invocation's step writes its own locals and nothing else: freeTimes and
\* the cursor are locals of the call
with_locals(i, p, l) == [i EXCEPT ![p] = l]

\* get_availability, on the locals l
get_availability_of(l) ==
    LET key == AvailabilityKey(l.event_type.id, l.event_type.availability_id)
    IN  IF key \in DOMAIN table /\ "data" \in DOMAIN table[key]
        THEN [l EXCEPT !.pc = "get_start_and_end_times",
                       !.availability_data = table[key].data]
        ELSE [l EXCEPT !.pc = "raised",
                       !.result = [raised |-> "Exception",
                                   message |-> "No availability found for the given IDs."]]

\* get_start_and_end_times with the clock reading now
get_start_and_end_times_of(l, now) ==
    [l EXCEPT !.pc = "requests_get",
              !.start_time = horizon_start(now),
              !.end_time = horizon_end(now)]

\* freeTimes = defaultdict(list), the provider's answer, the first slot
requests_get_of(l) ==
    [l EXCEPT !.pc = "loop",
              !.freeTimes = EmptyDict,
              !.events = calendar(l.event_type.id),
              !.time_slot_start = l.start_time,
              !.time_slot_end = plus_seconds(l.start_time, duration_seconds),
              !.first_loop = TRUE]

\* one pass through the body of the while loop
loop_body(l) ==
    LET s == advance(l.first_loop, l.time_slot_start)
        e == advance(l.first_loop, l.time_slot_end)
        working_hours == working_hours_of(l.availability_data, s)
    IN  [l EXCEPT !.time_slot_start = s,
                  !.time_slot_end = e,
                  !.first_loop = FALSE,
                  !.freeTimes =
                      IF ~within_working_hours(working_hours, s, e) THEN @
                      ELSE IF overlapping_with_event(l.events, s, e) THEN @
                      ELSE append_slot(@, s)]

\* the while loop for at most n passes, and the return when its condition
\* fails
RECURSIVE run_upto(_, _)
run_upto(l, n) ==
    IF ~dt_le(l.time_slot_end, l.end_time)
    THEN [l EXCEPT !.pc = "done", !.result = [statusCode |-> 200, body |-> l.freeTimes]]
    ELSE IF n = 0 THEN l
    ELSE run_upto(loop_body(l), n - 1)

\* the while loop for at most b blocks of PassesPerStep passes
RECURSIVE run_blocks(_, _)
run_blocks(l, b) ==
    IF b = 0 \/ l.pc = "done" THEN l
    ELSE CHOOSE r \in { run_blocks(next, b - 1) : next \in {run_upto(l, PassesPerStep)} } :
             TRUE

pair_get_availability(p) ==
    /\ inv[p].pc = "get_availability"
    /\ inv' = with_locals(inv, p, get_availability_of(inv[p]))

pair_get_start_and_end_times(p) ==
    /\ inv[p].pc = "get_start_and_end_times"
    /\ \E now \in PairNows :
          inv' = with_locals(inv, p, get_start_and_end_times_of(inv[p], now))

pair_requests_get(p) ==
    /\ inv[p].pc = "requests_get"
    /\ inv' = with_locals(inv, p, requests_get_of(inv[p]))

pair_loop(p) ==
    /\ inv[p].pc = "loop"
    /\ inv' = with_locals(inv, p, run_blocks(inv[p], BlocksPerStep))

NextPair ==
    /\ pc = "pair"
    /\ \E p \in Invocations :
          \/ pair_get_availability(p)
          \/ pair_get_start_and_end_times(p)
          \/ pair_requests_get(p)
          \/ pair_loop(p)
    /\ UNCHANGED <<pc, table, event_type, availability_data, current_date, start_time,
                   end_time, status_code, events, time_slot_start, time_slot_end,
                   first_loop, freeTimes, result, call, ret, request,
                   external_calls>>

SpecPair == InitPair /\ [][NextPair]_vars

----------------------------------------------------------------------------
(* the requests on availability templates and event types, over the store *)

StoreIds == {OwnerId, OtherId}

EventUuids == {"e1", "e2"}

\* the item ids of the templates of one owner in the store requests
TemplateUuids == {AvailabilityId}

\* "^([0-1][0-9]|2[0-3]):[0-5][0-9]:[0-5][0-9]$"
matches_time_pattern(hms) ==
    /\ Len(hms) = 3
    /\ hms[1] \in 0..23
    /\ hms[2] \in 0..59
    /\ hms[3] \in 0..59

\* variant: the model without min_items and max_items
accepted_without_item_count(body) ==
    /\ DOMAIN body = {"name", "availabilities"}
    /\ \A d \in 1..Len(body.availabilities) :
          \A i \in 1..Len(body.availabilities[d]) :
              LET range == body.availabilities[d][i]
              IN  /\ DOMAIN range = {"start", "end"}
                  /\ matches_time_pattern(range.start)
                  /\ matches_time_pattern(range.end)

\* availability_model, applied by the request validator to the body of PUT
accepted(body) ==
    /\ DOMAIN body = {"name", "availabilities"}
    /\ Len(body.availabilities) >= 7
    /\ Len(body.availabilities) <= 7
    /\ \A d \in 1..Len(body.availabilities) :
          \A i \in 1..Len(body.availabilities[d]) :
              LET range == body.availabilities[d][i]
              IN  /\ DOMAIN range = {"start", "end"}
                  /\ matches_time_pattern(range.start)
                  /\ matches_time_pattern(range.end)

\* bodies sent with PUT /availabilities: two of 7 buckets, one of 6, one of
\* 8, one with an hour that is no hour
AvailabilityBodies ==
    { [name |-> "Saturdays", availabilities |-> TemplateSaturday],
      [name |-> "Office", availabilities |-> TemplateOfficeMonday],
      [name |-> "Six", availabilities |-> SubSeq(TemplateOfficeMonday, 1, 6)],
      [name |-> "Eight", availabilities |-> Append(TemplateOfficeMonday, <<>>)],
      [name |-> "Late",
       availabilities |-> [i \in 1..7 |-> <<Range(<<9, 0, 0>>, <<24, 0, 0>>)>>]] }

\* bodies sent with POST and PUT /event-types
EventTypeBodies ==
    { [name |-> "Intro call", description |-> "", url |-> Url, duration |-> 30,
       availability_id |-> AvailabilityId, hidden |-> FALSE],
      [name |-> "Deep dive", description |-> "one hour", url |-> "deep", duration |-> 60,
       availability_id |-> "a2", hidden |-> TRUE],
      [name |-> "Profile", description |-> "", url |-> ReservedUrl, duration |-> 15,
       availability_id |-> AvailabilityId, hidden |-> FALSE] }

\* what a request handler gives back: a value, or an exception
returns(value) == [raised |-> None, value |-> value]

raises(error, message) == [raised |-> error, value |-> message]

\* variant: update_item without ConditionExpression writes the attributes
\* under the key whether or not an item is there
update_item_upsert(t, key, attrs) ==
    [ok |-> TRUE,
     table |-> IF key \in DOMAIN t THEN [t EXCEPT ![key] = attrs @@ @]
               ELSE t @@ (key :> attrs)]

\* table.update_item with ConditionExpression attribute_exists(id) AND
\* attribute_exists(sortKey): SET of the attributes on the stored item, or
\* ConditionalCheckFailedException
update_item(t, key, attrs) ==
    IF key \in DOMAIN t
    THEN [ok |-> TRUE, table |-> [t EXCEPT ![key] = attrs @@ @]]
    ELSE [ok |-> FALSE, table |-> t]

\* table.delete_item with the same ConditionExpression
delete_item(t, key) ==
    IF key \in DOMAIN t
    THEN [ok |-> TRUE, table |-> [k \in DOMAIN t \ {key} |-> t[k]]]
    ELSE [ok |-> FALSE, table |-> t]

InitStore ==
    /\ pc = "store"
    /\ table = NoRows
    /\ call = [fn |-> "none", id |-> None, item_id |-> None]
    /\ result = returns(None)
    /\ ret = None
    /\ request = None
    /\ inv = None
    /\ external_calls = <<>>
    /\ event_type = None
    /\ availability_data = None
    /\ current_date = None
    /\ start_time = None
    /\ end_time = None
    /\ status_code = None
    /\ events = None
    /\ time_slot_start = None
    /\ time_slot_end = None
    /\ first_loop = None
    /\ freeTimes = None

\* a request changes the store and what it gives back, nothing else
store_request ==
    /\ pc = "store"
    /\ UNCHANGED <<pc, event_type, availability_data, current_date, start_time, end_time,
                   status_code, events, time_slot_start, time_slot_end, first_loop,
                   freeTimes, ret, request, inv, external_calls>>

\* POST /availabilities: availabilities.create(id, name)
availabilities_create ==
    /\ store_request
    /\ \E id \in StoreIds, uuid \in TemplateUuids :
           /\ AvailabilityKey(id, uuid) \notin DOMAIN table
           /\ call' = [fn |-> "availabilities.create", id |-> id, item_id |-> uuid]
           /\ table' = table @@
                 (AvailabilityKey(id, uuid) :>
                     [name |-> "Working hours", data |-> default_availability,
                      timezone |-> "America/New_York"])
           /\ result' = returns("Item created")

\* PUT /availabilities: the validator, then availabilities.update
availabilities_update ==
    /\ store_request
    /\ \E id \in StoreIds, availability_id \in TemplateUuids, availability \in AvailabilityBodies :
           IF ~accepted(availability)
           THEN /\ call' = [fn |-> "rejected", id |-> id, item_id |-> availability_id]
                /\ table' = table
                /\ result' = raises("BadRequest", "Invalid request body")
           ELSE LET updated == update_item(table, AvailabilityKey(id, availability_id),
                                           [data |-> availability.availabilities,
                                            name |-> availability.name])
                IN  /\ call' = [fn |-> "availabilities.update", id |-> id,
                                item_id |-> availability_id]
                    /\ table' = updated.table
                    /\ result' = IF updated.ok THEN returns("Item updated")
                                 ELSE raises("NotFoundError", "does not exist")

\* DELETE /availabilities: availabilities.delete(id, availability_id)
availabilities_delete ==
    /\ store_request
    /\ \E id \in StoreIds, availability_id \in TemplateUuids :
           LET deleted == delete_item(table, AvailabilityKey(id, availability_id))
           IN  /\ call' = [fn |-> "availabilities.delete", id |-> id,
                           item_id |-> availability_id]
               /\ table' = deleted.table
               /\ result' = IF deleted.ok THEN returns("Item deleted")
                            ELSE raises("NotFoundError", "does not exist")

\* POST /event-types: event_types.create(id, event_type)
event_types_create ==
    /\ store_request
    /\ \E id \in StoreIds, uuid \in EventUuids, event \in EventTypeBodies :
           /\ EventKey(id, uuid) \notin DOMAIN table
           /\ call' = [fn |-> "event_types.create", id |-> id, item_id |-> uuid]
           /\ table' = table @@ (EventKey(id, uuid) :> (event @@ [id |-> id, username |-> id]))
           /\ result' = returns("Item created")

\* PUT /event-types: event_types.update(id, event_type_id, event_type)
event_types_update ==
    /\ store_request
    /\ \E id \in StoreIds, event_type_id \in EventUuids, event \in EventTypeBodies :
           LET updated == update_item(table, EventKey(id, event_type_id), event)
           IN  /\ call' = [fn |-> "event_types.update", id |-> id, item_id |-> event_type_id]
               /\ table' = updated.table
               /\ result' = IF updated.ok THEN returns("Item updated")
                            ELSE raises("NotFoundError", "does not exist")

\* DELETE /event-types: event_types.delete(id, event_type_id)
event_types_delete ==
    /\ store_request
    /\ \E id \in StoreIds, event_type_id \in EventUuids :
           LET deleted == delete_item(table, EventKey(id, event_type_id))
           IN  /\ call' = [fn |-> "event_types.delete", id |-> id, item_id |-> event_type_id]
               /\ table' = deleted.table
               /\ result' = IF deleted.ok THEN returns("Item deleted")
                            ELSE raises("NotFoundError", "does not exist")

\* the urls of the model in the order of the sort key of UsernameUrlIndex
\* (strings ordered by their UTF-8 bytes)
UrlsInIndexOrder == <<ReservedUrl, "deep", Url>>

index_position(url) == CHOOSE i \in 1..Len(UrlsInIndexOrder) : UrlsInIndexOrder[i] = url

\* table.query on UsernameUrlIndex with the username alone: the rows that
\* carry both key attributes of the index, in the order of url; every order
\* of rows with the same url is possible
query(t, username) ==
    LET keys == { k \in DOMAIN t : /\ "username" \in DOMAIN t[k]
                                   /\ "url" \in DOMAIN t[k]
                                   /\ t[k].username = username }
        orders == { s \in [1..Cardinality(keys) -> keys] :
                      /\ \A i, j \in DOMAIN s : i # j => s[i] # s[j]
                      /\ \A i, j \in DOMAIN s :
                             i < j => index_position(t[s[i]].url)
                                        <= index_position(t[s[j]].url) }
    IN  { [i \in DOMAIN s |-> t[s[i]]] : s \in orders }

\* Python's None as an element of a list of records
NoneItem == [none |-> TRUE]

\* book.convert_to_public_form(event, filter_hidden=True): None for the
\* reserved url, for a hidden event and for a row without one of the
\* attributes read (the except clause); the stored numbers are whole, so
\* int() gives the duration as stored
convert_to_public_form(event) ==
    IF "url" \notin DOMAIN event THEN NoneItem
    ELSE IF event.url = ReservedUrl THEN NoneItem
    ELSE IF "hidden" \notin DOMAIN event THEN NoneItem
    ELSE IF event.hidden THEN NoneItem
    ELSE IF ~({"name", "description", "duration"} \subseteq DOMAIN event) THEN NoneItem
    ELSE [name |-> event.name, description |-> event.description,
          duration |-> event.duration]

\* GET /book/{username}: get_event_types_for_username(username)
get_event_types_for_username ==
    /\ store_request
    /\ \E username \in StoreIds :
           \E items \in query(table, username) :
               /\ call' = [fn |-> "get_event_types_for_username", id |-> username,
                           item_id |-> None]
               /\ table' = table
               /\ result' =
                     IF items = <<>>
                     THEN raises("NotFoundError", "does not exist")
                     ELSE returns([i \in DOMAIN items |-> convert_to_public_form(items[i])])

NextStore ==
    \/ availabilities_create
    \/ availabilities_update
    \/ availabilities_delete
    \/ event_types_create
    \/ event_types_update
    \/ event_types_delete
    \/ get_event_types_for_username

SpecStore == InitStore /\ [][NextStore]_vars

----------------------------------------------------------------------------
(* bookings: create, update and get on the rows BOOKING:<uuid> of an owner *)

\* the uuids of the model in the order of the sort key of the table
BookingUuids == <<"b1", "b2">>

BookingKey(id, booking_id) == <<id, <<"BOOKING", booking_id>>>>

\* bodies sent with POST and PUT /bookings, as booking_model requires them
BookingBodies ==
    { [name |-> "Intro call", date |-> <<2024, 1, 22, 9, 0, 0>>,
       host |-> [name |-> "Owner", email |-> "owner@example.org"],
       guests |-> <<[name |-> "Guest", email |-> "guest@example.org"]>>],
      [name |-> "Deep dive", date |-> <<2024, 1, 23, 14, 30, 0>>,
       host |-> [name |-> "Owner", email |-> "owner@example.org"],
       guests |-> <<>>] }

\* table.update_item without ConditionExpression: SET of the attributes on
\* the stored item, or a new item of the key attributes and these
update_item_unconditional(t, key, attrs) ==
    IF key \in DOMAIN t
    THEN [t EXCEPT ![key] = attrs @@ @]
    ELSE t @@ (key :> (attrs @@ [id |-> key[1], sortKey |-> key[2]]))

\* table.query with id = :id AND begins_with(sortKey, "BOOKING:"): the rows
\* of the owner in the order of the sort key
query_bookings(t, id) ==
    LET stored == SelectSeq(BookingUuids, LAMBDA u : BookingKey(id, u) \in DOMAIN t)
    IN  [i \in DOMAIN stored |-> t[BookingKey(id, stored[i])]]

\* bookings.convert_to_public_form(booking): booking["sortKey"].split(":")[1]
\* is the part after BOOKING:, and a row without one of the attributes read
\* gives None (the except clause)
bookings_convert_to_public_form(booking) ==
    IF {"id", "sortKey", "data"} \subseteq DOMAIN booking
    THEN [owner |-> booking.id, booking_id |-> booking.sortKey[2],
          data |-> booking.data]
    ELSE NoneItem

\* POST /bookings: bookings.create(id, booking); uuid.uuid4() is a new uuid,
\* so attribute_not_exists(id) AND attribute_not_exists(sortKey) holds
bookings_create ==
    /\ store_request
    /\ \E id \in StoreIds, i \in DOMAIN BookingUuids, booking \in BookingBodies :
           LET key == BookingKey(id, BookingUuids[i])
           IN  /\ key \notin DOMAIN table
               /\ call' = [fn |-> "bookings.create", id |-> id,
                           item_id |-> BookingUuids[i]]
               /\ table' = table @@
                     (key :> [id |-> id, sortKey |-> key[2],
                              name |-> booking.name, date |-> booking.date,
                              host |-> booking.host, guests |-> booking.guests])
               /\ result' = returns(<<"Item created", 201>>)

\* PUT /bookings: bookings.update(id, booking_id, booking)
bookings_update ==
    /\ store_request
    /\ \E id \in StoreIds, i \in DOMAIN BookingUuids, booking \in BookingBodies :
           /\ call' = [fn |-> "bookings.update", id |-> id, item_id |-> BookingUuids[i]]
           /\ table' = update_item_unconditional(table, BookingKey(id, BookingUuids[i]),
                             [name |-> booking.name, date |-> booking.date,
                              host |-> booking.host, guests |-> booking.guests])
           /\ result' = returns("Item updated")

\* GET /bookings: bookings.get(id)
bookings_get ==
    /\ store_request
    /\ \E id \in StoreIds :
           LET items == query_bookings(table, id)
           IN  /\ call' = [fn |-> "bookings.get", id |-> id, item_id |-> None]
               /\ table' = table
               /\ result' = returns([i \in DOMAIN items |->
                                        bookings_convert_to_public_form(items[i])])

NextBookings ==
    \/ bookings_create
    \/ bookings_update
    \/ bookings_get

SpecBookings == InitStore /\ [][NextBookings]_vars

----------------------------------------------------------------------------
(* what the properties are stated with, written from their wording *)

QuarterHour == 15 * 60

\* number of quarter-hour candidates in seven weeks
HorizonSlots == 7 * 7 * 24 * 4

SlotEnd(s) == plus_seconds(s, QuarterHour)

IsSunday(dt) == dt.ord % 7 = 0

IsSaturday(dt) == dt.ord % 7 = 6

IsMidnight(dt) == dt.sec = 0 /\ dt.us = 0

IsLastMicrosecond(dt) == dt.sec = 23 * 3600 + 59 * 60 + 59 /\ dt.us = 999999

Before(a, b) == <<a.ord, a.sec, a.us>> # <<b.ord, b.sec, b.us>> /\
    (a.ord < b.ord \/ (a.ord = b.ord /\ (a.sec < b.sec \/ (a.sec = b.sec /\ a.us < b.us))))

NotAfter(a, b) == ~Before(b, a)

Instant(iso) ==
    [ord |-> ymd2ord(iso[1], iso[2], iso[3]),
     sec |-> iso[4] * 3600 + iso[5] * 60 + iso[6],
     us  |-> IF Len(iso) > 6 THEN iso[7] ELSE 0]

\* half-open overlap of the busy interval b with the slot [s, e)
HalfOpenOverlap(b, s, e) == Before(s, Instant(b.end)) /\ Before(Instant(b.start), e)

SecondOfDay(hms) == hms[1] * 3600 + hms[2] * 60 + hms[3]

\* r.start <= time_of_day(s) < r.end and r.start <= time_of_day(e) <= r.end,
\* for a range whose bounds are whole seconds
InsideRange(r, s, e) ==
    /\ SecondOfDay(r.start) <= s.sec
    /\ s.sec < SecondOfDay(r.end)
    /\ SecondOfDay(r.start) <= e.sec
    /\ (e.sec < SecondOfDay(r.end) \/ (e.sec = SecondOfDay(r.end) /\ e.us = 0))

InsideSomeRange(ranges, s, e) == \E i \in 1..Len(ranges) : InsideRange(ranges[i], s, e)

\* the bucket of the template for the weekday of s, Monday first
Bucket(template, s) == template[((s.ord + 6) % 7) + 1]

OverlapsSomeBusy(busy, s, e) == \E i \in 1..Len(busy) : HalfOpenOverlap(busy[i], s, e)

TouchesSomeBusy(busy, s, e) ==
    \E i \in 1..Len(busy) : Instant(busy[i].start) = e \/ Instant(busy[i].end) = s

\* the starts of the slots of a returned body
Emitted(body) ==
    UNION { { Instant(body[d][i].time) : i \in 1..Len(body[d]) } : d \in DOMAIN body }

\* the starts of the candidates horizon_start + k * 15 min that end by horizon_end
Candidates ==
    { c \in { plus_seconds(start_time, k * QuarterHour) : k \in 0..HorizonSlots } :
        NotAfter(SlotEnd(c), end_time) }

Returned == pc = "done"

WindowComputed == pc = "requests_get"

----------------------------------------------------------------------------
(* the properties *)

\* C1: no slot of the returned body overlaps a busy interval: for each
\* emitted slot [s, s + 15 min) and each busy interval b,
\* NOT (s < b.end AND s + 15 min > b.start).
C1_NoEmittedSlotOverlapsBusy ==
    Returned =>
        LET emitted == Emitted(result.body)
        IN  \A s \in emitted : ~OverlapsSomeBusy(events, s, SlotEnd(s))

\* C1 witness: a run has returned slots, and a candidate inside working
\* hours that a busy interval overlaps was left out.
C1_Witness ==
    /\ Returned
    /\ LET emitted == Emitted(result.body)
       IN  /\ emitted # {}
           /\ \E c \in Candidates :
                 /\ InsideSomeRange(Bucket(availability_data, c), c, SlotEnd(c))
                 /\ OverlapsSomeBusy(events, c, SlotEnd(c))
                 /\ c \notin emitted

\* C2: every emitted slot lies inside one range of the bucket of the weekday
\* of its start: some r has r.start <= tod(start) < r.end and
\* r.start <= tod(end) <= r.end.
C2_EmittedSlotInsideOneRange ==
    Returned =>
        \A s \in Emitted(result.body) :
            InsideSomeRange(Bucket(availability_data, s), s, SlotEnd(s))

\* C2 witness: a returned slot on a weekday whose bucket has two ranges.
C2_Witness ==
    /\ Returned
    /\ \E s \in Emitted(result.body) : Len(Bucket(availability_data, s)) = 2

\* C3: every candidate horizon_start + k * 15 min that ends by horizon_end,
\* is within the working hours of its weekday and overlaps no busy interval
\* is in the returned body.
C3_EveryQualifyingCandidateEmitted ==
    Returned =>
        LET emitted == Emitted(result.body)
        IN  \A c \in Candidates :
                ( /\ InsideSomeRange(Bucket(availability_data, c), c, SlotEnd(c))
                  /\ ~OverlapsSomeBusy(events, c, SlotEnd(c)) )
                => c \in emitted

\* C3 witness: the very first candidate, at horizon_start, and the last one
\* that ends by horizon_end qualify and are returned, with busy intervals
\* present.
C3_Witness ==
    /\ Returned
    /\ events # <<>>
    /\ LET emitted == Emitted(result.body)
       IN  /\ start_time \in emitted
           /\ \E c \in Candidates :
                 /\ ~NotAfter(SlotEnd(SlotEnd(c)), end_time)
                 /\ c \in emitted

\* C4: every slot of the returned body lies inside the horizon:
\* horizon_start <= start and start + 15 min <= horizon_end.
C4_EmittedSlotInsideHorizon ==
    Returned =>
        \A s \in Emitted(result.body) :
            NotAfter(start_time, s) /\ NotAfter(SlotEnd(s), end_time)

\* C5: horizon_start is a Sunday at 00:00:00.000000, horizon_end a Saturday
\* at 23:59:59.999999, and horizon_start <= now <= horizon_end.
C5_WindowSundayToSaturdayAroundNow ==
    WindowComputed =>
        /\ IsSunday(start_time) /\ IsMidnight(start_time)
        /\ IsSaturday(end_time) /\ IsLastMicrosecond(end_time)
        /\ NotAfter(start_time, current_date)
        /\ NotAfter(current_date, end_time)

\* C5 witness: the window was computed from a clock reading on a Sunday, at
\* the last microsecond of the day.
C5_Witness ==
    /\ WindowComputed
    /\ IsSunday(current_date)
    /\ IsLastMicrosecond(current_date)

\* C6: horizon_start is the most recent Sunday at 00:00:00: at most 6 days
\* before the date of now, and the date of now itself when now is a Sunday.
C6_StartIsMostRecentSunday ==
    WindowComputed =>
        /\ IsSunday(start_time) /\ IsMidnight(start_time)
        /\ start_time.ord <= current_date.ord
        /\ current_date.ord - start_time.ord <= 6
        /\ (IsSunday(current_date) => start_time.ord = current_date.ord)

\* C7: horizon_end is the last microsecond of a Saturday whose date is on or
\* after the date of now + 6 weeks and less than 7 days after it.
C7_EndIsSaturdayOnOrAfterSixWeeks ==
    WindowComputed =>
        /\ IsSaturday(end_time) /\ IsLastMicrosecond(end_time)
        /\ end_time.ord >= current_date.ord + 6 * 7
        /\ end_time.ord < current_date.ord + 6 * 7 + 7

\* C8: within_working_hours returns true if and only if some single range r
\* has r.start <= tod(slot_start) < r.end and r.start <= tod(slot_end) <= r.end.
C8_WithinWorkingHoursIffOneRange ==
    (pc = "returned" /\ call.fn = "within_working_hours") =>
        (ret = InsideSomeRange(call.working_hours, call.time_slot_start,
                               call.time_slot_end))

\* C8 witness: a slot whose start lies in one range and whose end lies in
\* another, adjacent one, covered by their union only, was rejected.
C8_Witness ==
    /\ pc = "returned"
    /\ call.fn = "within_working_hours"
    /\ ret = FALSE
    /\ Len(call.working_hours) = 2
    /\ SecondOfDay(call.working_hours[1].end) = SecondOfDay(call.working_hours[2].start)
    /\ SecondOfDay(call.working_hours[1].start) <= call.time_slot_start.sec
    /\ call.time_slot_start.sec < SecondOfDay(call.working_hours[1].end)
    /\ SecondOfDay(call.working_hours[2].start) < call.time_slot_end.sec
    /\ call.time_slot_end.sec <= SecondOfDay(call.working_hours[2].end)
    /\ call.time_slot_start.ord = call.time_slot_end.ord

\* C9: for a slot with slot_start < slot_end and busy intervals with
\* b.start < b.end, overlapping_with_event returns true if and only if some
\* b has slot_start < b.end AND slot_end > b.start.
C9_OverlappingIffHalfOpen ==
    ( /\ pc = "returned"
      /\ call.fn = "overlapping_with_event"
      /\ Before(call.time_slot_start, call.time_slot_end)
      /\ \A i \in 1..Len(call.events) :
            Before(Instant(call.events[i].start), Instant(call.events[i].end)) )
    => (ret = OverlapsSomeBusy(call.events, call.time_slot_start, call.time_slot_end))

\* C9 witness: true was returned for a slot that strictly contains the one
\* busy interval (only the third clause applies).
C9_Witness ==
    /\ pc = "returned"
    /\ call.fn = "overlapping_with_event"
    /\ ret = TRUE
    /\ Len(call.events) = 1
    /\ Before(Instant(call.events[1].start), Instant(call.events[1].end))
    /\ Before(call.time_slot_start, Instant(call.events[1].start))
    /\ Before(Instant(call.events[1].end), call.time_slot_end)

\* C10: a candidate inside the horizon and inside working hours that ends
\* exactly when a busy interval starts, or starts exactly when one ends, and
\* overlaps no busy interval, is in the returned body.
C10_TouchingSlotKept ==
    Returned =>
        LET emitted == Emitted(result.body)
        IN  \A c \in Candidates :
                ( /\ TouchesSomeBusy(events, c, SlotEnd(c))
                  /\ InsideSomeRange(Bucket(availability_data, c), c, SlotEnd(c))
                  /\ ~OverlapsSomeBusy(events, c, SlotEnd(c)) )
                => c \in emitted

\* C10 witness: with the busy interval [09:00, 09:30) on a Monday whose
\* hours cover it, the 09:00 and 09:15 slots are absent and the 08:45 and
\* 09:30 slots, which touch it, are returned.
C10_Witness ==
    /\ Returned
    /\ \E i \in 1..Len(events) :
          events[i] = Event(<<2024, 1, 22, 9, 0, 0>>, <<2024, 1, 22, 9, 30, 0>>)
    /\ LET emitted == Emitted(result.body)
       IN  /\ Instant(<<2024, 1, 22, 9, 0, 0>>) \notin emitted
           /\ Instant(<<2024, 1, 22, 9, 15, 0>>) \notin emitted
           /\ Instant(<<2024, 1, 22, 8, 45, 0>>) \in emitted
           /\ Instant(<<2024, 1, 22, 9, 30, 0>>) \in emitted

\* C11: a slot that straddles midnight (its end is on the day after its
\* start) is rejected by within_working_hours, for every list of ranges,
\* also one with a range from 00:00:00 to after 23:45:00.
C11_MidnightStraddleRejected ==
    ( /\ pc = "returned"
      /\ call.fn = "within_working_hours"
      /\ call.time_slot_end.ord > call.time_slot_start.ord )
    => ret = FALSE

\* the slot at the cursor is the last one recorded under its date
CursorRecorded ==
    /\ pc = "loop"
    /\ ~first_loop
    /\ strftime_date(time_slot_start) \in DOMAIN freeTimes
    /\ LET slots == freeTimes[strftime_date(time_slot_start)]
       IN  slots[Len(slots)].time = isoformat(time_slot_start)

\* C12: if the bucket of a weekday is empty, no slot starting on that weekday
\* is emitted: neither recorded while the loop runs nor in the returned body,
\* whatever the busy intervals and the other buckets are.
C12_EmptyBucketNoSlot ==
    /\ CursorRecorded => Bucket(availability_data, time_slot_start) # <<>>
    /\ Returned =>
          LET emitted == Emitted(result.body)
          IN  \A s \in emitted : Bucket(availability_data, s) # <<>>

\* C12 witness: a run has returned slots although the template has an empty
\* bucket, and candidates of the horizon fall on that weekday.
C12_Witness ==
    /\ Returned
    /\ LET emitted == Emitted(result.body)
       IN  /\ emitted # {}
           /\ events # <<>>
           /\ \E c \in Candidates :
                 /\ Bucket(availability_data, c) = <<>>
                 /\ c \notin emitted

OnGrid(hms) == SecondOfDay(hms) % QuarterHour = 0

\* the bucket is the single range [a, b] with a < b both on the 15-minute grid
SingleGridRange(bucket) ==
    /\ Len(bucket) = 1
    /\ OnGrid(bucket[1].start)
    /\ OnGrid(bucket[1].end)
    /\ SecondOfDay(bucket[1].start) < SecondOfDay(bucket[1].end)

Midnight(ord) == [ord |-> ord, sec |-> 0, us |-> 0]

\* the dates of the horizon
HorizonDates == start_time.ord .. end_time.ord

\* the k-th quarter of an hour from a on the date ord, as the body prints it
GridSlot(ord, a, k) ==
    [time  |-> ord2ymd(ord) \o << (SecondOfDay(a) + k * QuarterHour) \div 3600,
                                  ((SecondOfDay(a) + k * QuarterHour) % 3600) \div 60,
                                  0 >>,
     users |-> <<>>]

\* C13: with no busy interval, a date of the horizon whose weekday bucket is
\* the single range [a, b], a and b on the 15-minute grid, gets exactly
\* (b - a)/15min slots, the first starting at a, each next one 15 minutes
\* later, the last at b - 15min; a Monday 09:00:00-17:00:00 gets exactly 32
\* slots from 09:00:00 to 16:45:00.
C13_SingleRangeSlotCount ==
    (Returned /\ events = <<>>) =>
        \A d \in HorizonDates :
            LET bucket == Bucket(availability_data, Midnight(d))
            IN  SingleGridRange(bucket) =>
                  LET a == bucket[1].start
                      n == (SecondOfDay(bucket[1].end) - SecondOfDay(a)) \div QuarterHour
                  IN  /\ ord2ymd(d) \in DOMAIN result.body
                      /\ result.body[ord2ymd(d)] = [k \in 1..n |-> GridSlot(d, a, k - 1)]
                      /\ ( bucket[1] = Range(<<9, 0, 0>>, <<17, 0, 0>>) =>
                             /\ Len(result.body[ord2ymd(d)]) = 32
                             /\ result.body[ord2ymd(d)][1].time = ord2ymd(d) \o <<9, 0, 0>>
                             /\ result.body[ord2ymd(d)][32].time = ord2ymd(d) \o <<16, 45, 0>> )

\* C13 witness: a run without busy intervals has returned, and a Monday of
\* its horizon has the bucket 09:00:00-17:00:00.
C13_Witness ==
    /\ Returned
    /\ events = <<>>
    /\ \E d \in HorizonDates :
          /\ (d + 6) % 7 = 0
          /\ Bucket(availability_data, Midnight(d)) = <<Range(<<9, 0, 0>>, <<17, 0, 0>>)>>
          /\ ord2ymd(d) \in DOMAIN result.body

\* the walk runs over the template default_availability built, with no busy
\* interval
WalkingDefault ==
    /\ pc \in {"loop", "done"}
    /\ availability_data = default_availability
    /\ events = <<>>

IsWorkday(ord) == ord % 7 \in 1..5

\* C14: for the template default_availability builds and no busy interval,
\* slots are emitted on every Monday, Tuesday, Wednesday, Thursday and Friday
\* of the horizon and none on a Saturday or a Sunday: no slot is recorded on
\* a weekend day while the loop runs, and the returned body has a key for a
\* date of the horizon exactly when the date is Monday to Friday.
C14_DefaultTemplateAligned ==
    WalkingDefault =>
        /\ CursorRecorded => IsWorkday(time_slot_start.ord)
        /\ Returned =>
              \A d \in HorizonDates : IsWorkday(d) <=> ord2ymd(d) \in DOMAIN result.body

\* the request has ended: get_availabilities_for_url returned or raised
Ended == pc \in {"done", "failed"}

\* the request names an event type of the store
EventTypeFound ==
    /\ request.url # ReservedUrl
    /\ items_for(table, request.username, request.url) # {}

\* the store has no availability row under the key the event type names
TemplateMissing ==
    /\ EventTypeFound
    /\ \A k \in items_for(table, request.username, request.url) :
          AvailabilityKey(table[k].id, table[k].availability_id) \notin DOMAIN table

\* C15: when no template is stored for (owner id, availability_id), the
\* request get_availabilities_for_url -> get_availabilities -> get_availability
\* ends with the NotFound error, not with a generic internal server error.
C15_MissingTemplateIsNotFound ==
    (Ended /\ TemplateMissing) =>
        /\ pc = "failed"
        /\ result.raised = "NotFoundError"

Success == 200..299

\* get_availabilities is using, or has used, the provider's answer
AnswerUsed == pc \in {"loop", "done"}

\* get_availabilities raised on the provider's answer
AnswerRefused ==
    /\ pc = "raised"
    /\ result.raised \in {"KeyError", "JSONDecodeError"}

\* C16: a provider answer with a non-2xx status, or with a body that is not
\* JSON holding an 'events' list, makes get_availabilities fail with no slot
\* data: busy intervals are taken only from a 2xx answer, whatever the body
\* of another answer holds.
C16_BadAnswerNeverUsed ==
    /\ AnswerUsed => status_code \in Success
    /\ AnswerRefused => freeTimes = EmptyDict

\* C17: no partial results: a request in which the template lookup, the
\* fetch of the busy intervals (an exception, a non-2xx answer, a malformed
\* body) or a step of the enumeration failed ends with an error that carries
\* no slot mapping, and a result with statusCode 200 carries every qualifying
\* candidate of the whole horizon.
C17_NoPartialResults ==
    /\ pc = "failed" => "body" \notin DOMAIN result
    /\ Returned =>
          /\ result.statusCode = 200
          /\ status_code \in Success
          /\ LET emitted == Emitted(result.body)
             IN  \A c \in Candidates :
                     ( /\ InsideSomeRange(Bucket(availability_data, c), c, SlotEnd(c))
                       /\ ~OverlapsSomeBusy(events, c, SlotEnd(c)) )
                     => c \in emitted

\* where the request is: its step, and inside the loop the slot at the cursor
position ==
    <<pc, IF pc = "loop" THEN <<time_slot_start, time_slot_end, first_loop>> ELSE <<>> >>

\* one pass of the loop: the first keeps the initial slot, every other moves
\* start and end of the slot by exactly 15 minutes, whether or not the slot
\* was recorded
CursorStep ==
    /\ pc' = "loop"
    /\ NotAfter(time_slot_end, end_time)
    /\ IF first_loop
       THEN time_slot_start' = time_slot_start /\ time_slot_end' = time_slot_end
       ELSE /\ time_slot_start' = plus_seconds(time_slot_start, QuarterHour)
            /\ time_slot_end' = plus_seconds(time_slot_end, QuarterHour)

\* the loop is left once the slot's end has passed horizon_end
CursorExit ==
    /\ pc' = "done"
    /\ Before(end_time, time_slot_end)

\* the whole seconds from horizon_start to the instant t
SinceStart(t) == (t.ord - start_time.ord) * 86400 + (t.sec - start_time.sec)

\* inside the loop the cursor is one of the finitely many candidates, or the
\* first one past horizon_end, and a step that moves on is possible
CursorBounded ==
    pc = "loop" =>
        /\ NotAfter(start_time, time_slot_start)
        /\ NotAfter(time_slot_start, end_time)
        /\ SinceStart(time_slot_start) % QuarterHour = 0
        /\ time_slot_end = SlotEnd(time_slot_start)
        /\ ENABLED <<loop_iteration \/ loop_exit>>_position

\* C19: the loop of get_availabilities terminates for every now, template
\* and busy list: the cursor stays among the finitely many candidates of the
\* horizon, in every state of the loop a pass or the exit can be taken and
\* changes the position, every pass after the first, also one that skips
\* its slot, moves the cursor by exactly 15 minutes, and the loop is left
\* once the slot's end has passed horizon_end.
C19_LoopTerminates ==
    /\ []CursorBounded
    /\ [][pc = "loop" => (CursorStep \/ CursorExit)]_vars

\* C19 witness: a run has returned after passes that skipped their slot,
\* some outside working hours and some for a busy interval.
C19_Witness ==
    /\ Returned
    /\ LET emitted == Emitted(result.body)
       IN  /\ \E c \in Candidates :
                 ~InsideSomeRange(Bucket(availability_data, c), c, SlotEnd(c))
           /\ \E c \in Candidates :
                 /\ InsideSomeRange(Bucket(availability_data, c), c, SlotEnd(c))
                 /\ c \notin emitted

\* the instants the loop visits between start and end: the first candidate,
\* and every next one as long as the one before it ended by the horizon's end
Visited(start, end) ==
    { c \in { plus_seconds(start, k * QuarterHour) : k \in 0..(HorizonSlots + 1) } :
        \/ c = start
        \/ NotAfter(c, end) }

\* what an invocation with the locals l returns when it runs alone: the
\* visited instants inside the working hours of their weekday that no busy
\* interval of its own calendar overlaps
Alone(l) ==
    { c \in Visited(l.start_time, l.end_time) :
        /\ InsideSomeRange(Bucket(l.availability_data, c), c, SlotEnd(c))
        /\ ~OverlapsSomeBusy(l.events, c, SlotEnd(c)) }

\* the lists of a body are in ascending order of time, each under its date
InOrder(body) ==
    \A d \in DOMAIN body :
        /\ \A i \in 1..Len(body[d]) : SubSeq(body[d][i].time, 1, 3) = d
        /\ \A i \in 1..(Len(body[d]) - 1) :
              Before(Instant(body[d][i].time), Instant(body[d][i + 1].time))

\* C20: two invocations of get_availabilities, for the same owner or for two
\* owners, interleaved in any way: each returns exactly what it returns
\* alone, i.e. the qualifying instants of its own template, calendar and
\* horizon, in order, with none of the other's slots and none of its own
\* missing.
C20_InvocationsIndependent ==
    pc = "pair" =>
        \A p \in Invocations :
            inv[p].pc = "done" =>
                /\ inv[p].result.statusCode = 200
                /\ Emitted(inv[p].result.body) = Alone(inv[p])
                /\ InOrder(inv[p].result.body)

\* C20 witness: the first invocation has returned slots while the second,
\* for the same owner and a later week, is inside its loop with slots of its
\* own recorded.
C20_Witness ==
    /\ pc = "pair"
    /\ inv[1].pc = "done"
    /\ inv[1].result.body # EmptyDict
    /\ inv[2].pc = "loop"
    /\ inv[2].event_type = inv[1].event_type
    /\ inv[2].start_time # inv[1].start_time
    /\ inv[2].freeTimes # EmptyDict

SevenWeeks == 7 * 7

\* C26: for every now, whatever its weekday, horizon_end - horizon_start is
\* exactly 7 weeks minus one microsecond: the horizon runs from midnight of
\* its first date to the last microsecond of its 49th date, and holds 7 dates
\* of each weekday.
C26_HorizonIsSevenWeeks ==
    WindowComputed =>
        /\ IsMidnight(start_time)
        /\ IsLastMicrosecond(end_time)
        /\ end_time.ord - start_time.ord = SevenWeeks - 1
        /\ Cardinality(HorizonDates) = SevenWeeks
        /\ \A w \in 0..6 : Cardinality({d \in HorizonDates : d % 7 = w}) = 7

\* C26 witness: the window was computed from a clock reading at midnight of
\* a Sunday, the day on which the offsets of the code are at their extremes.
C26_Witness ==
    /\ WindowComputed
    /\ IsSunday(current_date)
    /\ IsMidnight(current_date)
    /\ end_time.ord - start_time.ord = SevenWeeks - 1

\* the YYYY-MM-DD date a printed timestamp starts with
DateOf(iso) == SubSeq(iso, 1, 3)

\* C25: in the returned body every slot record is filed under the key that
\* is the YYYY-MM-DD date of its own start, no key has an empty list, and
\* within each date the slot times are strictly increasing.
C25_SlotsFiledByDateInOrder ==
    Returned =>
        \A d \in DOMAIN result.body :
            LET slots == result.body[d]
            IN  /\ slots # <<>>
                /\ \A i \in 1..Len(slots) :
                      /\ DateOf(slots[i].time) = d
                      /\ strftime_date(Instant(slots[i].time)) = d
                /\ \A i, j \in 1..Len(slots) :
                      i < j => Before(Instant(slots[i].time), Instant(slots[j].time))

\* C25 witness: a returned body with several slots under one date and with
\* a slot that starts at 23:45:00 and so ends on the next date.
C25_Witness ==
    /\ Returned
    /\ \E d \in DOMAIN result.body : Len(result.body[d]) > 2
    /\ \E d \in DOMAIN result.body :
          result.body[d][Len(result.body[d])].time = d \o <<23, 45, 0>>

\* the template of the request's event type is in the store
TemplateStored ==
    LET key == AvailabilityKey(event_type.id, event_type.availability_id)
    IN  key \in DOMAIN table /\ "data" \in DOMAIN table[key]

\* the instant t cut to whole seconds, as the provider's query prints it
ToTheSecond(t) == ord2ymd(t.ord) \o <<t.sec \div 3600, (t.sec % 3600) \div 60, t.sec % 60>>

\* C24: the external calls of one get_availabilities invocation, in order:
\* the template lookup comes first; the provider is called at most once,
\* only after the template was loaded, with the owner id and the window
\* horizon_start to horizon_end (printed to the second); with the template
\* absent the provider is never called; no call is made a second time; and
\* a request that reached the loop has made exactly these two calls.
C24_LookupThenProviderOnce ==
    /\ Len(external_calls) <= 2
    /\ Len(external_calls) >= 1 =>
          /\ external_calls[1].op = "get_item"
          /\ external_calls[1].Key =
                AvailabilityKey(event_type.id, event_type.availability_id)
    /\ Len(external_calls) = 2 =>
          /\ TemplateStored
          /\ external_calls[2].op = "GET"
          /\ external_calls[2].id = event_type.id
          /\ external_calls[2].start_time = ToTheSecond(start_time)
          /\ external_calls[2].end_time = ToTheSecond(end_time)
          /\ IsMidnight(Instant(external_calls[2].start_time))
    /\ pc \in {"loop", "done"} => Len(external_calls) = 2

\* C24 witness: a request has ended after both calls, and the provider was
\* asked for the window that ends on 2024-03-02 at 23:59:59, horizon_end
\* being the last microsecond of that second.
C24_Witness ==
    /\ Ended
    /\ Len(external_calls) = 2
    /\ external_calls[2].end_time = <<2024, 3, 2, 23, 59, 59>>
    /\ IsLastMicrosecond(end_time)

IsTemplateKey(key) == key[2][1] = "AVAILABILITY"

\* C21: after any sequence of create, update and delete requests, with the
\* update bodies the API model accepts, every stored availability template
\* has exactly 7 weekday buckets in its data.
C21_StoredTemplateHasSevenBuckets ==
    pc = "store" =>
        \A key \in DOMAIN table :
            IsTemplateKey(key) => Len(table[key].data) = 7

\* C21 witness: a template was created and then updated, bodies of 6 and
\* of 8 buckets were sent too, and the stored data is the 7-bucket body.
C21_Witness ==
    /\ pc = "store"
    /\ call.fn = "availabilities.update"
    /\ result = returns("Item updated")
    /\ \E key \in DOMAIN table :
          IsTemplateKey(key) /\ table[key].data = TemplateSaturday

\* the key an update or delete request names
NamedKey(c) ==
    IF c.fn \in {"availabilities.update", "availabilities.delete"}
    THEN AvailabilityKey(c.id, c.item_id)
    ELSE EventKey(c.id, c.item_id)

\* C22: update and delete of an availability template or of an event type
\* whose (id, item id) key has no stored record raise NotFoundError and
\* leave the store as it was: nothing created, modified or removed.
C22_MissingKeyNotFoundStoreUnchanged ==
    [][ ( /\ pc = "store"
          /\ call'.fn \in {"availabilities.update", "availabilities.delete",
                            "event_types.update", "event_types.delete"}
          /\ NamedKey(call') \notin DOMAIN table )
        => ( /\ result'.raised = "NotFoundError"
             /\ table' = table ) ]_vars

\* C22 witness: an update of an event type under another owner's id was
\* refused with NotFoundError while the store holds that event type under
\* its owner's id and a template.
C22_Witness ==
    /\ pc = "store"
    /\ call.fn = "event_types.update"
    /\ result.raised = "NotFoundError"
    /\ EventKey(call.id, call.item_id) \notin DOMAIN table
    /\ \E id \in StoreIds : EventKey(id, call.item_id) \in DOMAIN table
    /\ \E key \in DOMAIN table : IsTemplateKey(key)

\* the rows of a user's event types that the public list shows
VisibleEventKeys(username) ==
    { k \in DOMAIN table : /\ ~IsTemplateKey(k)
                           /\ table[k].username = username
                           /\ ~table[k].hidden
                           /\ table[k].url # ReservedUrl }

IsPublicForm(item) == DOMAIN item = {"name", "description", "duration"}

\* C23: get_event_types_for_username raises NotFoundError when the username
\* has no stored row; otherwise it returns a list with exactly one public-form
\* record (name, description, duration) per event type of the user that is
\* neither hidden nor under the reserved url, and no element at all, no null
\* placeholder, for a hidden or reserved row.
C23_PublicItemsOnly ==
    (pc = "store" /\ call.fn = "get_event_types_for_username") =>
        IF \A k \in DOMAIN table : IsTemplateKey(k) \/ table[k].username # call.id
        THEN result.raised = "NotFoundError"
        ELSE /\ result.raised = None
             /\ \A i \in DOMAIN result.value : IsPublicForm(result.value[i])
             /\ Len(result.value) = Cardinality(VisibleEventKeys(call.id))
             /\ \A k \in VisibleEventKeys(call.id) :
                    \E i \in DOMAIN result.value :
                        /\ result.value[i].name = table[k].name
                        /\ result.value[i].description = table[k].description
                        /\ result.value[i].duration = table[k].duration

\* the rows bookings.create wrote for an owner
CreatedBookings(id) ==
    { k \in DOMAIN table : k[1] = id /\ k[2][1] = "BOOKING" }

\* C27: after bookings.create(id, booking) succeeded, bookings.get(id) returns
\* a list that holds, for that booking, a non-null public-form record with
\* owner = id, booking_id = the generated id and the stored booking data.
C27_CreatedBookingIsListed ==
    (pc = "store" /\ call.fn = "bookings.get") =>
        \A k \in CreatedBookings(call.id) :
            \E i \in DOMAIN result.value :
                /\ DOMAIN result.value[i] = {"owner", "booking_id", "data"}
                /\ result.value[i].owner = call.id
                /\ result.value[i].booking_id = k[2][2]
                /\ "data" \in DOMAIN table[k]
                /\ result.value[i].data = table[k].data

============================================================================
